---- MODULE Spec2Model ----
(***************************************************************************)
(* Mention-gated dispatch, chat registry and daily broadcast of the        *)
(* "Smooth" bot: main.py (Telegram bot), server.py and api.py (HTTP bot).  *)
(* Texts are sequences of one-character strings so that lower() and the    *)
(* substring test are computed, not assumed.                               *)
(***************************************************************************)
EXTENDS Integers, Sequences, FiniteSets, TLC

VARIABLES
    proc,         \* main(): "init", "running" or "exited"
    env,          \* which credentials the environment sets (os.getenv)
    io_faults,    \* whether the file system may fail reads and writes of groups.json
    GROUPS_FILE,  \* content of groups.json
    upserted,     \* history: the chat ids add_group was called with
    clock,        \* datetime.now(), advanced by every inbound update
    hpc,          \* position of each handle_message coroutine
    hst,          \* locals and observable effects of each handle_message coroutine
    jobs,         \* jobs registered in the JobQueue
    tpc,          \* position of the send_daily_news coroutine
    tst,          \* locals and observable effects of the send_daily_news coroutine
    ticks,        \* number of ticks started
    srv_sched,    \* server.py: jobs of the BackgroundScheduler (ids)
    srv,          \* server.py: the last request or job run and its result
    health,       \* main.py: the last answer of GET /health, served by the Flask thread
    built         \* the last assembly of the news document and the answers of its sources

vars == <<proc, env, io_faults, GROUPS_FILE, upserted, clock, hpc, hst, jobs, tpc, tst, ticks, srv_sched, srv, health, built>>

(***************************************************************************)
(* Bounds of the model.                                                    *)
(***************************************************************************)
MaxMsgs == 2
MaxTicks == 2
MaxRegistrations == 2

Handlers == {1, 2}

(***************************************************************************)
(* Python text primitives.                                                 *)
(***************************************************************************)
Upper == <<"A","B","C","D","E","F","G","H","I","J","K","L","M","N","O","P","Q","R","S","T","U","V","W","X","Y","Z">>
Lower == <<"a","b","c","d","e","f","g","h","i","j","k","l","m","n","o","p","q","r","s","t","u","v","w","x","y","z">>

LowerChar(c) == IF \E i \in 1..Len(Upper) : Upper[i] = c THEN Lower[CHOOSE i \in 1..Len(Upper) : Upper[i] = c] ELSE c

\* str.lower()
lower(s) == [i \in 1..Len(s) |-> LowerChar(s[i])]

\* the Python test `sub in s` on strings
contains(sub, s) == \E i \in 0..(Len(s) - Len(sub)) : SubSeq(s, i + 1, i + Len(sub)) = sub

IsSpace(c) == c \in {" ", "\t", "\n"}

RECURSIVE lstrip(_)
lstrip(s) == IF s # <<>> /\ IsSpace(Head(s)) THEN lstrip(Tail(s)) ELSE s

RECURSIVE rstrip(_)
rstrip(s) == IF s # <<>> /\ IsSpace(s[Len(s)]) THEN rstrip(SubSeq(s, 1, Len(s) - 1)) ELSE s

\* str.strip()
strip(s) == rstrip(lstrip(s))

\* `a or b` on strings, None and "" both written <<>>
py_or(a, b) == IF a # <<>> THEN a ELSE b

DigitChar == <<"0","1","2","3","4","5","6","7","8","9">>

RECURSIVE digits(_)
digits(n) == IF n < 10 THEN <<DigitChar[n + 1]>> ELSE digits(n \div 10) \o <<DigitChar[(n % 10) + 1]>>

\* mutant: the sign of the identifier is dropped
py_str_unsigned(n) == IF n < 0 THEN digits(0 - n) ELSE digits(n)

\* str(chat_id)
py_str(n) == IF n < 0 THEN <<"-">> \o digits(0 - n) ELSE digits(n)

DigitVal(c) == (CHOOSE i \in 1..10 : DigitChar[i] = c) - 1

RECURSIVE nat(_)
nat(s) == IF s = <<>> THEN 0 ELSE nat(SubSeq(s, 1, Len(s) - 1)) * 10 + DigitVal(s[Len(s)])

\* int(chat_id_str)
py_int(s) == IF s # <<>> /\ Head(s) = "-" THEN 0 - nat(Tail(s)) ELSE nat(s)

\* s[:n]
Take(s, n) == SubSeq(s, 1, IF Len(s) < n THEN Len(s) ELSE n)

(***************************************************************************)
(* Exceptions: a call either returns a value or raises.                    *)
(***************************************************************************)
Ok(v) == [exc |-> FALSE, val |-> v]
Raise(v) == [exc |-> TRUE, val |-> v]

(***************************************************************************)
(* main.py: configuration.                                                 *)
(***************************************************************************)
BOT_NAME == <<"s","m","o","o","t","h">>

\* context.bot.username and context.bot.id, given by the platform
bot_username == <<"s","b","o","t">>
bot_id == 99

news_keywords == {
    <<"n","e","w","s">>,
    <<"h","e","a","d","l","i","n","e","s">>,
    <<"u","p","d","a","t","e","s">>,
    <<"l","a","t","e","s","t"," ","n","e","w","s">>,
    <<"w","h","a","t","s"," ","h","a","p","p","e","n","i","n","g">>,
    <<"w","h","a","t","'","s"," ","h","a","p","p","e","n","i","n","g">>}

IMAGE_PROMPT == <<"W","h","a","t","'","s"," ","i","n"," ","t","h","i","s"," ","i","m","a","g","e","?"," ","D","e","s","c","r","i","b","e"," ","i","t"," ","f","o","r"," ","m","e",".">>

\* the fixed replies of handle_message
ACK_REPLY == "Let me fetch the latest news for you!"
NEWS_ERROR_REPLY == "Oops! Had trouble fetching news. Try again in a moment?"
RATE_LIMIT_REPLY == "Bit exhausted right now try again shortly"
ERROR_REPLY == "Oops! Something went wrong. Try again?"

(***************************************************************************)
(* main.py: the registry file groups.json.  A dict keeps insertion order,  *)
(* so it is a sequence of entries with distinct keys.                      *)
(***************************************************************************)
NoFile == [exists |-> FALSE, valid |-> TRUE, entries |-> <<>>]

ReadOutcomes == IF io_faults THEN {"ok", "error"} ELSE {"ok"}
WriteOutcomes == IF io_faults THEN {"ok", "open_error", "dump_error"} ELSE {"ok"}

load_groups(file, rd) == IF file.exists /\ file.valid /\ rd = "ok" THEN file.entries ELSE <<>>

save_groups(file, groups, wr) ==
    CASE wr = "ok" -> [exists |-> TRUE, valid |-> TRUE, entries |-> groups]
      [] wr = "open_error" -> file
      [] OTHER -> [exists |-> TRUE, valid |-> FALSE, entries |-> <<>>]

\* lines 44-46, GET /health: the status and the number of groups it reports
\* torn: the file was open for writing, truncated or half written, when it was read
NoHealth == [status |-> "none", groups |-> 0, torn |-> FALSE]

dict_has(d, k) == \E i \in 1..Len(d) : d[i].key = k

dict_keys(d) == {d[i].key : i \in 1..Len(d)}

dict_get(d, k) == d[CHOOSE i \in 1..Len(d) : d[i].key = k]

\* groups[key] = {"title": title, "added_at": added_at}
dict_set(d, k, title, added_at) ==
    LET e == [key |-> k, title |-> title, added_at |-> added_at]
    IN  IF dict_has(d, k) THEN [i \in 1..Len(d) |-> IF d[i].key = k THEN e ELSE d[i]] ELSE Append(d, e)

\* mutant: the entry is written to a fresh dict instead of the loaded one
add_group_lost(file, chat_id, chat_title, now, rd, wr) ==
    save_groups(file, dict_set(<<>>, py_str(chat_id), chat_title, now), wr)

add_group(file, chat_id, chat_title, now, rd, wr) ==
    save_groups(file, dict_set(load_groups(file, rd), py_str(chat_id), chat_title, now), wr)

(***************************************************************************)
(* Replies.  A reply is a fixed text, a text generated by the model, or a  *)
(* news document.                                                          *)
(***************************************************************************)
NoDoc == [date |-> 0, sections |-> <<>>]

FixedReply(t) == [kind |-> "fixed", text |-> t, content |-> <<>>, doc |-> NoDoc]
GeneratedReply(c) == [kind |-> "generated", text |-> "", content |-> c, doc |-> NoDoc]
NewsReplyOf(d) == [kind |-> "news", text |-> "", content |-> <<>>, doc |-> d]
NoReply == [kind |-> "none", text |-> "", content |-> <<>>, doc |-> NoDoc]

(***************************************************************************)
(* main.py: the content sources (NewsAPI) and the news document.           *)
(***************************************************************************)
None == "None"
PAGE_SIZE == 5

CRYPTO_QUERY == "cryptocurrency OR bitcoin OR ethereum OR crypto"
INDIA_QUERY == "India"
WORLD_QUERY == "world OR international OR global NOT India NOT crypto"

CRYPTO_TITLE == "CRYPTO NEWS"
INDIA_TITLE == "INDIA NEWS"
WORLD_TITLE == "WORLD NEWS"
NO_NEWS == "No recent news available"

\* what one NewsAPI exchange can be: an error (network, HTTP status, bad JSON),
\* no article, well-formed articles, an article whose title is null
NewsResponses == {"error", "empty", "articles", "null_title"}

ArticlesOf(query, resp) ==
    CASE resp = "articles" -> <<[title |-> "headline", url |-> "http://n/1", source |-> query]>>
      [] resp = "null_title" -> <<[title |-> None, url |-> "http://n/2", source |-> query]>>
      [] OTHER -> <<>>

fetch_news_newsapi(query, resp) == IF resp = "error" THEN <<>> ELSE Take(ArticlesOf(query, resp), PAGE_SIZE)

\* title_text.replace(...) raises AttributeError when the title is None
format_news_section(title, emoji, articles) ==
    IF \E i \in 1..Len(articles) : articles[i].title = None
    THEN Raise("AttributeError")
    ELSE Ok([title |-> title,
             emoji |-> emoji,
             items |-> [i \in 1..Len(articles) |-> [n |-> i, source |-> articles[i].source, title |-> articles[i].title, url |-> articles[i].url]],
             body |-> IF articles # <<>> THEN "" ELSE NO_NEWS])

format_news_message(now, r1, r2, r3) ==
    LET crypto_articles == fetch_news_newsapi(CRYPTO_QUERY, r1)
        india_articles == fetch_news_newsapi(INDIA_QUERY, r2)
        world_articles == fetch_news_newsapi(WORLD_QUERY, r3)
        s1 == format_news_section(CRYPTO_TITLE, "money", crypto_articles)
        s2 == format_news_section(INDIA_TITLE, "flag", india_articles)
        s3 == format_news_section(WORLD_TITLE, "globe", world_articles)
    IN  IF s1.exc THEN s1
        ELSE IF s2.exc THEN s2
        ELSE IF s3.exc THEN s3
        ELSE Ok([date |-> now, sections |-> <<s1.val, s2.val, s3.val>>])

\* the record of one assembly: the answers of the three sources and what
\* format_news_message returned or raised
NoBuilt == [done |-> FALSE, sources |-> <<>>, result |-> Ok(NoDoc)]

\* what format_news_message can return or raise at one time, over the answers of its sources
Assemblies(now) == {format_news_message(now, r1, r2, r3) : r1 \in NewsResponses, r2 \in NewsResponses, r3 \in NewsResponses}

HasSection(doc, title) == \E i \in 1..Len(doc.sections) : doc.sections[i].title = title

SectionFilled(s) == (s.items # <<>> /\ s.body = "") \/ (s.items = <<>> /\ s.body = NO_NEWS)

(***************************************************************************)
(* The language-model endpoint.  One exchange is a transport exception or  *)
(* an HTTP status with a body.                                             *)
(***************************************************************************)
Resp(exc, msg_quota, status, body, content) == [exc |-> exc, msg_quota |-> msg_quota, status |-> status, body |-> body, content |-> content]

GEN_TEXT == <<"o","k">>
BLANK_TEXT == <<" ">>

\* body: "content" (choices[0].message.content is a string), "null" (it is null),
\* "no_choices" (an error object), "choices_empty" (choices is []), "not_json_re"
\* and "not_json_ve" (not JSON: requests raises its JSONDecodeError, a
\* RequestException since 2.27, a plain ValueError before)
ApiResponses == {
    Resp("none", FALSE, 200, "content", GEN_TEXT),
    Resp("none", FALSE, 200, "content", BLANK_TEXT),
    Resp("none", FALSE, 200, "content", <<>>),
    Resp("none", FALSE, 200, "null", <<>>),
    Resp("none", FALSE, 200, "no_choices", <<>>),
    Resp("none", FALSE, 200, "choices_empty", <<>>),
    Resp("none", FALSE, 200, "not_json_re", <<>>),
    Resp("none", FALSE, 200, "not_json_ve", <<>>),
    Resp("none", FALSE, 429, "no_choices", <<>>),
    Resp("none", FALSE, 402, "no_choices", <<>>),
    Resp("none", FALSE, 500, "no_choices", <<>>),
    Resp("Timeout", FALSE, 0, "no_choices", <<>>),
    Resp("ConnectionError", FALSE, 0, "no_choices", <<>>),
    Resp("ConnectionError", TRUE, 0, "no_choices", <<>>)}

\* the failure kinds of the specification's section 4.2, read off one exchange
UpstreamRateLimited(r) == (r.exc = "none" /\ r.status \in {429, 402}) \/ (r.exc \notin {"none", "Timeout"} /\ r.msg_quota)
UpstreamTimeout(r) == r.exc = "Timeout"
UpstreamSuccess(r) == r.exc = "none" /\ r.status = 200 /\ r.body = "content" /\ strip(r.content) # <<>>
UpstreamEmpty(r) == r.exc = "none" /\ r.status = 200 /\ ~UpstreamSuccess(r) /\ r.body \notin {"not_json_re", "not_json_ve"}
UpstreamTransportError(r) == ~UpstreamRateLimited(r) /\ ~UpstreamTimeout(r) /\ ~UpstreamSuccess(r) /\ ~UpstreamEmpty(r)

\* what main.py's call_openrouter returns: (response, rate_limited); response None is none = TRUE
Pair(none, text, rate_limited) == [none |-> none, text |-> text, rate_limited |-> rate_limited]

call_openrouter(messages, image_url, r) ==
    IF r.exc # "none" THEN Ok(Pair(TRUE, <<>>, FALSE))
    ELSE IF r.status = 429 THEN Ok(Pair(TRUE, <<>>, TRUE))
    ELSE IF r.status >= 400 THEN Ok(Pair(TRUE, <<>>, FALSE))
    ELSE IF r.body = "not_json_re" THEN Ok(Pair(TRUE, <<>>, FALSE))
    ELSE IF r.body = "not_json_ve" THEN Raise("ValueError")
    ELSE IF r.body = "no_choices" THEN Raise("KeyError")
    ELSE IF r.body = "choices_empty" THEN Raise("IndexError")
    ELSE IF r.body = "null" THEN Ok(Pair(TRUE, <<>>, FALSE))
    ELSE Ok(Pair(FALSE, r.content, FALSE))

(***************************************************************************)
(* main.py: inbound updates.  reply_to_from is the id of the author of the *)
(* message replied to, 0 when the message is no reply.  text and caption   *)
(* are <<>> when absent.                                                   *)
(***************************************************************************)
Update(has_message, chat_id, chat_type, chat_title, text, caption, reply_to_from, photo) ==
    [has_message |-> has_message, chat_id |-> chat_id, chat_type |-> chat_type, chat_title |-> chat_title,
     text |-> text, caption |-> caption, reply_to_from |-> reply_to_from, photo |-> photo]

NoUpdate == Update(FALSE, 0, "none", "", <<>>, <<>>, 0, FALSE)

T_hi == <<"h","i"," ","a","l","l">>
T_name == <<"a"," ","S","m","o","o","t","h","i","e">>
T_news == <<"S","M","O","O","T","H"," ","N","E","W","S">>
T_newsonly == <<"n","e","w","s">>
T_handle == <<"@","S","B","o","t"," ","y","o">>
T_updates == <<"s","m","o","o","t","h"," ","U","p","d","a","t","e","s">>
T_bare == <<"S","m","o","o","t","h">>

OTHER_USER == 5

\* updates that only register their chat: no mention, group-type chat
SilentGroupUpdates == {
    Update(TRUE, -1, "group", "alpha", T_hi, <<>>, 0, FALSE),
    Update(TRUE, -20, "supergroup", "beta", T_hi, <<>>, OTHER_USER, FALSE),
    Update(TRUE, -3, "group", "gamma", T_newsonly, <<>>, 0, FALSE)}

Updates == SilentGroupUpdates \cup {
    Update(TRUE, -1, "group", "alpha", T_name, <<>>, 0, FALSE),
    Update(TRUE, -20, "supergroup", "beta", T_news, <<>>, 0, FALSE),
    Update(TRUE, -3, "group", "gamma", <<>>, T_bare, 0, TRUE),
    Update(TRUE, 7, "private", "", T_hi, <<>>, OTHER_USER, FALSE),
    Update(TRUE, 7, "private", "", <<>>, <<>>, bot_id, TRUE),
    Update(TRUE, -1, "group", "alpha", T_hi, <<>>, bot_id, FALSE),
    Update(TRUE, 7, "private", "", T_handle, <<>>, 0, FALSE),
    Update(TRUE, 7, "private", "", T_updates, <<>>, 0, FALSE),
    Update(FALSE, -4, "channel", "delta", T_name, <<>>, 0, FALSE)}

(***************************************************************************)
(* main.py: handle_message.  The coroutine runs without interruption from  *)
(* one await to the next; hpc is the await it is suspended at.             *)
(***************************************************************************)
NoExchange == Resp("unset", FALSE, 0, "unset", <<>>)

\* error is the exception that ended the coroutine: "" when none, "delivery" when
\* a call to the chat platform raised, else the exception call_openrouter let through
\* io is how the read and the write of groups.json went for this update, groups
\* the dict add_group holds while save_groups writes it
IdleH == [update |-> NoUpdate, message_text |-> <<>>, image_url |-> FALSE, decision |-> "none",
          log |-> <<>>, replies |-> <<>>, pending |-> NoReply, exchange |-> NoExchange, error |-> "",
          io |-> [rd |-> "ok", wr |-> "ok"], groups |-> <<>>]

\* mutant: any reply counts as a mention, whoever wrote the message replied to
is_mentioned_any_reply(message_text, reply_to_from) ==
    \/ contains(lower(BOT_NAME), lower(message_text))
    \/ contains(lower(<<"@">> \o bot_username), lower(message_text))
    \/ reply_to_from # 0

\* mutant: only the name and the handle count, a reply to the bot does not
is_mentioned_by_text(message_text, reply_to_from) ==
    \/ contains(lower(BOT_NAME), lower(message_text))
    \/ contains(lower(<<"@">> \o bot_username), lower(message_text))

is_mentioned(message_text, reply_to_from) ==
    \/ contains(lower(BOT_NAME), lower(message_text))
    \/ contains(lower(<<"@">> \o bot_username), lower(message_text))
    \/ (reply_to_from # 0 /\ reply_to_from = bot_id)

is_news_request(message_text) == \E keyword \in news_keywords : contains(keyword, lower(message_text))

\* the branch handle_message takes (lines 251, 260, 276)
Decision(message_text, reply_to_from) ==
    IF ~is_mentioned(message_text, reply_to_from) THEN "Silence"
    ELSE IF is_news_request(message_text) THEN "NewsReply"
    ELSE "ModelReply"

\* mutant: supergroups are forgotten
IsGroupType_group_only(chat_type) == chat_type = "group"

\* mutant: private chats are registered too
IsGroupType_or_private(chat_type) == chat_type \in {"group", "supergroup", "private"}

IsGroupType(chat_type) == chat_type \in {"group", "supergroup"}

Count(log, ev) == Cardinality({i \in 1..Len(log) : log[i] = ev})

\* mutant: a failed read or write of the store is not caught
track_membership_unguarded(file, u, now, rd, wr) ==
    IF IsGroupType(u.chat_type) /\ (rd # "ok" \/ wr # "ok")
    THEN Raise("OSError")
    ELSE Ok(IF IsGroupType(u.chat_type) THEN add_group(file, u.chat_id, u.chat_title, now, rd, wr) ELSE file)

\* lines 236-238: load_groups and save_groups catch every exception themselves
track_membership(file, u, now, rd, wr) ==
    Ok(IF IsGroupType(u.chat_type) THEN add_group(file, u.chat_id, u.chat_title, now, rd, wr) ELSE file)

SetH(h, pc, st) ==
    /\ hpc' = [hpc EXCEPT ![h] = pc]
    /\ hst' = [hst EXCEPT ![h] = st]

Others == <<proc, env, io_faults, jobs, tpc, tst, ticks, srv_sched, srv, health, built>>

\* A coroutine that has passed its last await ends before the event loop runs
\* anything else: while a handler is at "done" or "raised", only its Return runs.
NoneEnding == \A h \in Handlers : hpc[h] \notin {"done", "raised"}

\* lines 229-261 and 276-296: up to the first await.  The application gives an
\* update to the first free coroutine slot.
Receive(h, u) ==
    /\ proc = "running"
    /\ NoneEnding
    /\ hpc[h] = "idle"
    /\ \A h2 \in Handlers : h2 < h => hpc[h2] # "idle"
    /\ clock < MaxMsgs
    /\ clock' = clock + 1
    /\ UNCHANGED Others
    /\ IF ~u.has_message
       THEN /\ SetH(h, "done", [IdleH EXCEPT !.update = u])
            /\ UNCHANGED <<GROUPS_FILE, upserted>>
       ELSE \E rd \in ReadOutcomes, wr \in WriteOutcomes :
            LET tracked == track_membership(GROUPS_FILE, u, clock', rd, wr)
                message_text == py_or(u.text, py_or(u.caption, <<>>))
                log0 == IF IsGroupType(u.chat_type) THEN <<"add_group">> ELSE <<>>
                d == Decision(message_text, u.reply_to_from)
                io == IF IsGroupType(u.chat_type) THEN [rd |-> rd, wr |-> wr] ELSE IdleH.io
                st == [IdleH EXCEPT !.update = u, !.message_text = message_text, !.decision = d,
                                    !.log = Append(log0, "is_mentioned"), !.io = io]
            IN  IF tracked.exc
                THEN /\ SetH(h, "raised", [IdleH EXCEPT !.update = u, !.io = io, !.error = tracked.val])
                     /\ UNCHANGED <<GROUPS_FILE, upserted>>
                ELSE /\ GROUPS_FILE' = tracked.val
                     /\ upserted' = IF IsGroupType(u.chat_type) THEN upserted \cup {u.chat_id} ELSE upserted
                     /\ CASE d = "Silence" -> SetH(h, "done", st)
                          [] d = "NewsReply" -> SetH(h, "ack", [st EXCEPT !.pending = FixedReply(ACK_REPLY)])
                          [] d = "ModelReply" /\ u.photo -> SetH(h, "get_file", st)
                          [] OTHER -> SetH(h, "typing", st)

\* lines 261-273: the acknowledgement was sent (or failed); assemble the news
AckDone(h, ok) ==
    /\ hpc[h] = "ack"
    /\ NoneEnding
    /\ UNCHANGED <<GROUPS_FILE, upserted, clock>>
    /\ UNCHANGED Others
    /\ IF ~ok
       THEN SetH(h, "raised", [hst[h] EXCEPT !.pending = NoReply, !.error = "delivery"])
       ELSE \E news_message \in Assemblies(clock) :
            LET st == [hst[h] EXCEPT !.replies = Append(@, hst[h].pending),
                                     !.log = @ \o <<"reply", "fetch", "fetch", "fetch">>]
            IN  IF news_message.exc
                THEN SetH(h, "news_error", [st EXCEPT !.pending = FixedReply(NEWS_ERROR_REPLY)])
                ELSE SetH(h, "news_send", [st EXCEPT !.pending = NewsReplyOf(news_message.val)])

\* lines 265-273: the news reply was sent, or failed and the handler apologises
NewsSendDone(h, ok) ==
    /\ hpc[h] = "news_send"
    /\ NoneEnding
    /\ UNCHANGED <<GROUPS_FILE, upserted, clock>>
    /\ UNCHANGED Others
    /\ IF ok
       THEN SetH(h, "done", [hst[h] EXCEPT !.replies = Append(@, hst[h].pending), !.log = Append(@, "reply"), !.pending = NoReply])
       ELSE SetH(h, "news_error", [hst[h] EXCEPT !.pending = FixedReply(NEWS_ERROR_REPLY), !.error = "delivery"])

\* line 273: the apology was sent, or its failure escapes the handler
NewsErrorDone(h, ok) ==
    /\ hpc[h] = "news_error"
    /\ NoneEnding
    /\ UNCHANGED <<GROUPS_FILE, upserted, clock>>
    /\ UNCHANGED Others
    /\ IF ok
       THEN SetH(h, "done", [hst[h] EXCEPT !.replies = Append(@, hst[h].pending), !.log = Append(@, "reply"), !.pending = NoReply])
       ELSE SetH(h, "raised", [hst[h] EXCEPT !.pending = NoReply, !.error = "delivery"])

\* lines 278-296: get_file returned or raised; then the typing indicator is sent
GetFileDone(h, ok) ==
    /\ hpc[h] = "get_file"
    /\ NoneEnding
    /\ UNCHANGED <<GROUPS_FILE, upserted, clock>>
    /\ UNCHANGED Others
    /\ LET mt == hst[h].message_text
       IN  IF ok
           THEN SetH(h, "typing", [hst[h] EXCEPT !.image_url = TRUE,
                                                 !.message_text = IF mt = <<>> \/ lower(BOT_NAME) = lower(mt) THEN IMAGE_PROMPT ELSE mt])
           ELSE SetH(h, "typing", hst[h])

\* the reply handle_message chooses from call_openrouter's result (lines 301-308)
ReplyFor(result) ==
    IF result.rate_limited THEN FixedReply(RATE_LIMIT_REPLY)
    ELSE IF ~result.none /\ result.text # <<>> THEN GeneratedReply(result.text)
    ELSE FixedReply(ERROR_REPLY)

\* lines 296-308: the typing indicator was sent (or failed); call the model
TypingDone(h, ok) ==
    /\ hpc[h] = "typing"
    /\ NoneEnding
    /\ UNCHANGED <<GROUPS_FILE, upserted, clock>>
    /\ UNCHANGED Others
    /\ IF ~ok
       THEN SetH(h, "raised", [hst[h] EXCEPT !.error = "delivery"])
       ELSE \E r \in ApiResponses :
            LET res == call_openrouter(hst[h].message_text, hst[h].image_url, r)
                st == [hst[h] EXCEPT !.log = Append(@, "call_openrouter"), !.exchange = r]
            IN  IF res.exc
                THEN SetH(h, "raised", [st EXCEPT !.error = res.val])
                ELSE SetH(h, "reply", [st EXCEPT !.pending = ReplyFor(res.val)])

\* lines 302, 306, 308: the reply was sent, or its failure escapes the handler
ReplyDone(h, ok) ==
    /\ hpc[h] = "reply"
    /\ NoneEnding
    /\ UNCHANGED <<GROUPS_FILE, upserted, clock>>
    /\ UNCHANGED Others
    /\ IF ok
       THEN SetH(h, "done", [hst[h] EXCEPT !.replies = Append(@, hst[h].pending), !.log = Append(@, "reply"), !.pending = NoReply])
       ELSE SetH(h, "raised", [hst[h] EXCEPT !.pending = NoReply, !.error = "delivery"])

\* the coroutine has ended; the application takes the next update
Return(h) ==
    /\ proc = "running"
    /\ hpc[h] \in {"done", "raised"}
    /\ SetH(h, "idle", IdleH)
    /\ UNCHANGED <<GROUPS_FILE, upserted, clock>>
    /\ UNCHANGED Others

(***************************************************************************)
(* main.py: one upsert as the file system and the Flask thread see it.     *)
(* open(GROUPS_FILE, 'w') truncates the file; json.dump then writes it.    *)
(***************************************************************************)
TruncatedFile == [exists |-> TRUE, valid |-> FALSE, entries |-> <<>>]

\* lines 229-238, 73-79 and 65-68: from the update to the open for writing
ReceiveOpen(u) ==
    /\ proc = "running"
    /\ hpc[1] = "idle"
    /\ clock < MaxMsgs
    /\ clock' = clock + 1
    /\ GROUPS_FILE' = TruncatedFile
    /\ upserted' = upserted \cup {u.chat_id}
    /\ SetH(1, "dumping", [IdleH EXCEPT !.update = u, !.log = <<"add_group">>,
                                        !.groups = dict_set(load_groups(GROUPS_FILE, "ok"), py_str(u.chat_id), u.chat_title, clock')])
    /\ UNCHANGED Others

\* lines 69 and 240-252: json.dump has written the dict and the file is closed
DumpDone ==
    /\ proc = "running"
    /\ hpc[1] = "dumping"
    /\ GROUPS_FILE' = save_groups(GROUPS_FILE, hst[1].groups, "ok")
    /\ LET u == hst[1].update
           message_text == py_or(u.text, py_or(u.caption, <<>>))
       IN  SetH(1, "done", [hst[1] EXCEPT !.message_text = message_text, !.log = Append(@, "is_mentioned"),
                                          !.decision = Decision(message_text, u.reply_to_from), !.groups = <<>>])
    /\ UNCHANGED <<upserted, clock>>
    /\ UNCHANGED Others

\* lines 44-46: GET /health, answered by the Flask thread at any moment
Health ==
    /\ proc = "running"
    /\ health' = [status |-> "healthy", groups |-> Len(load_groups(GROUPS_FILE, "ok")),
                  torn |-> GROUPS_FILE.exists /\ ~GROUPS_FILE.valid]
    /\ UNCHANGED <<proc, env, io_faults, GROUPS_FILE, upserted, clock, hpc, hst, jobs, tpc, tst, ticks, srv_sched, srv, built>>

\* the process is stopped at any moment
Stop ==
    /\ proc = "running"
    /\ proc' = "stopped"
    /\ UNCHANGED <<env, io_faults, GROUPS_FILE, upserted, clock, hpc, hst, jobs, tpc, tst, ticks, srv_sched, srv, health, built>>

(***************************************************************************)
(* main.py: main() and the daily job.                                      *)
(***************************************************************************)
\* job_queue.run_daily(..., name="daily_news") adds a job
setup_daily_news(job_queue) == Append(job_queue, "daily_news")

\* lines 342-384: refuse to start without the two required credentials
Main ==
    /\ proc = "init"
    /\ IF ~env.TELEGRAM_TOKEN \/ ~env.OPENROUTER_API_KEY
       THEN /\ proc' = "exited"
            /\ UNCHANGED <<jobs, tpc>>
       ELSE /\ proc' = "running"
            /\ jobs' = setup_daily_news(jobs)
            /\ tpc' = "armed"
    /\ UNCHANGED <<env, io_faults, GROUPS_FILE, upserted, clock, hpc, hst, tst, ticks, srv_sched, srv, health, built>>

(***************************************************************************)
(* main.py: send_daily_news, the tick of the daily job.  tpc is "idle"     *)
(* (no job), "armed", or the await the tick is suspended at.               *)
(***************************************************************************)
\* registered is history: the identifiers in the store at the moment the tick began;
\* builds counts the calls of format_news_message the tick has made
NoTick == [tick |-> 0, registered |-> {}, builds |-> 0, groups |-> <<>>, idx |-> 0, news_message |-> NoReply, sends |-> <<>>, pins |-> <<>>, outcome |-> "none"]

\* run_daily passes no max_instances: APScheduler's default of one running
\* instance per job applies, and a run that comes due while one is running is skipped
max_instances == 1

running_instances == IF tpc \in {"sending", "pinning"} THEN 1 ELSE 0

\* mutant: a run is started whatever is running
may_run_always == TRUE

\* a run that comes due is started only below the instance limit of the job
may_run == running_instances < max_instances

\* the message id the platform gives to the n-th message of a tick
MessageId(tick, n) == 10 * tick + n

TickFrame == <<proc, env, io_faults, GROUPS_FILE, upserted, clock, hpc, hst, jobs, srv_sched, srv, health, built>>

\* the for loop moves to the next entry, or the tick ends
NextEntry(st) ==
    IF st.idx < Len(st.groups)
    THEN /\ tpc' = "sending"
         /\ tst' = [st EXCEPT !.idx = @ + 1]
    ELSE /\ tpc' = "armed"
         /\ tst' = [st EXCEPT !.outcome = "finished"]

\* the scheduled time of the daily job comes (ticks counts these times), and
\* lines 193-212: load the registry, assemble the news, start the first send
TickStart ==
    /\ proc = "running"
    /\ NoneEnding
    /\ tpc # "idle"
    /\ jobs # <<>>
    /\ ticks < MaxTicks
    /\ ticks' = ticks + 1
    /\ UNCHANGED TickFrame
    /\ IF ~may_run
       THEN UNCHANGED <<tpc, tst>>
       ELSE \E rd \in ReadOutcomes :
            LET groups == load_groups(GROUPS_FILE, rd)
                t == [NoTick EXCEPT !.tick = ticks',
                                    !.registered = IF GROUPS_FILE.exists /\ GROUPS_FILE.valid THEN {py_int(k) : k \in dict_keys(GROUPS_FILE.entries)} ELSE {}]
            IN  IF groups = <<>>
                THEN /\ tpc' = "armed"
                     /\ tst' = [t EXCEPT !.outcome = "no_groups"]
                ELSE \E news_message \in Assemblies(clock) :
                     LET t1 == [t EXCEPT !.groups = groups, !.builds = 1]
                     IN  IF news_message.exc
                         THEN /\ tpc' = "armed"
                              /\ tst' = [t1 EXCEPT !.outcome = "raised"]
                         ELSE /\ tpc' = "sending"
                              /\ tst' = [t1 EXCEPT !.idx = 1, !.outcome = "running",
                                                   !.news_message = NewsReplyOf(news_message.val)]

\* mutant: the pin is tried whether or not the send succeeded
SendDone_pin_always(ok) ==
    /\ tpc = "sending"
    /\ NoneEnding
    /\ UNCHANGED <<ticks>>
    /\ UNCHANGED TickFrame
    /\ tpc' = "pinning"
    /\ tst' = [tst EXCEPT !.sends = Append(@, [chat_id |-> py_int(tst.groups[tst.idx].key), text |-> tst.news_message,
                                               ok |-> ok, message_id |-> MessageId(tst.tick, tst.idx)])]

\* mutant: the news is assembled anew for every chat of the loop
SendDone_reassemble(ok) ==
    /\ tpc = "sending"
    /\ NoneEnding
    /\ UNCHANGED <<ticks>>
    /\ UNCHANGED TickFrame
    /\ \E news_message \in {a \in Assemblies(clock) : ~a.exc} :
       LET chat_id == py_int(tst.groups[tst.idx].key)
           sent == [chat_id |-> chat_id, text |-> NewsReplyOf(news_message.val), ok |-> ok, message_id |-> MessageId(tst.tick, tst.idx)]
           st == [tst EXCEPT !.sends = Append(@, sent), !.builds = @ + 1]
       IN  IF ok
           THEN /\ tpc' = "pinning"
                /\ tst' = st
           ELSE NextEntry(st)

\* lines 207-212 and 226-227: send_message returned a message or raised
SendDone(ok) ==
    /\ tpc = "sending"
    /\ NoneEnding
    /\ UNCHANGED <<ticks>>
    /\ UNCHANGED TickFrame
    /\ LET chat_id == py_int(tst.groups[tst.idx].key)
           sent == [chat_id |-> chat_id, text |-> tst.news_message, ok |-> ok, message_id |-> MessageId(tst.tick, tst.idx)]
           st == [tst EXCEPT !.sends = Append(@, sent)]
       IN  IF ok
           THEN /\ tpc' = "pinning"
                /\ tst' = st
           ELSE NextEntry(st)

\* lines 215-224: pin_chat_message returned or raised
PinDone(ok) ==
    /\ tpc = "pinning"
    /\ NoneEnding
    /\ UNCHANGED <<ticks>>
    /\ UNCHANGED TickFrame
    /\ LET sent_message == tst.sends[Len(tst.sends)]
           pin == [chat_id |-> py_int(tst.groups[tst.idx].key), message_id |-> sent_message.message_id, ok |-> ok]
       IN  NextEntry([tst EXCEPT !.pins = Append(@, pin)])

(***************************************************************************)
(* api.py and server.py: the HTTP bot.                                     *)
(***************************************************************************)
server_BOT_NAME == <<"S","m","o","o","t","h">>

CONFIG_REPLY == "Configuration error. Please contact the administrator."
SLEEPY_REPLY == "Now I am Sleepy ask Tomorrow"
EMPTY_REPLY == "I'm having trouble thinking right now. Try again!"
TIMEOUT_REPLY == "I'm thinking too slow right now. Try again!"
GENERIC_REPLY == "Something went wrong. Please try again later."
DEFAULT_REPLY == "I'm having trouble responding right now."

Result(success, error, reply) == [success |-> success, error |-> error, reply |-> reply]

\* api.py lines 22-107
get_ai_response(api_key, user_message, r) ==
    IF ~api_key THEN Ok(Result(FALSE, "API key not configured", FixedReply(CONFIG_REPLY)))
    ELSE IF r.exc = "Timeout" THEN Ok(Result(FALSE, "timeout", FixedReply(TIMEOUT_REPLY)))
    ELSE IF r.exc # "none" THEN
        (IF r.msg_quota THEN Ok(Result(FALSE, "rate_limit", FixedReply(SLEEPY_REPLY)))
         ELSE Ok(Result(FALSE, "str(e)", FixedReply(GENERIC_REPLY))))
    ELSE IF r.status = 429 \/ r.status = 402 THEN Ok(Result(FALSE, "rate_limit", FixedReply(SLEEPY_REPLY)))
    ELSE IF r.status >= 400 THEN
        (IF r.msg_quota THEN Ok(Result(FALSE, "rate_limit", FixedReply(SLEEPY_REPLY)))
         ELSE Ok(Result(FALSE, "str(e)", FixedReply(GENERIC_REPLY))))
    ELSE IF r.body = "not_json_re" THEN Ok(Result(FALSE, "str(e)", FixedReply(GENERIC_REPLY)))
    ELSE IF r.body = "not_json_ve" THEN Raise("ValueError")
    ELSE IF r.body = "choices_empty" THEN Raise("IndexError")
    ELSE IF r.body \in {"no_choices", "null"} \/ r.content = <<>> THEN Ok(Result(FALSE, "empty_response", FixedReply(EMPTY_REPLY)))
    ELSE Ok(Result(TRUE, "", GeneratedReply(strip(r.content))))

\* server.py lines 41-56
should_respond(message) == message # <<>> /\ contains(lower(server_BOT_NAME), lower(message))

\* server.py lines 59-78: the reply and the number of calls to the endpoint
process_message(message, api_key, r) ==
    IF ~should_respond(message) THEN Ok([reply |-> NoReply, calls |-> 0])
    ELSE LET result == get_ai_response(api_key, message, r)
         IN  IF result.exc THEN Raise([reply |-> NoReply, calls |-> 1])
             ELSE Ok([reply |-> result.val.reply, calls |-> IF api_key THEN 1 ELSE 0])

\* a reply is empty (`not bot_reply`) when it carries no text
ReplyEmpty(reply) == reply.kind = "none" \/ (reply.kind = "generated" /\ reply.content = <<>>)

\* builds is the number of assemblies of the daily message the request ran
NoRequest == [op |-> "none", message |-> <<>>, status |-> 0, reply |-> NoReply, note |-> FALSE, raw_error |-> FALSE, calls |-> 0, builds |-> 0]

\* server.py lines 142-188: POST /message; has_field is whether the JSON has 'message'
server_handle_message(has_field, message, api_key, r) ==
    LET user_message == strip(message)
        req == [NoRequest EXCEPT !.op = "message", !.message = message]
    IN  IF ~has_field THEN [req EXCEPT !.status = 400]
        ELSE IF user_message = <<>> THEN [req EXCEPT !.status = 400]
        ELSE LET bot_reply == process_message(user_message, api_key, r)
             IN  IF bot_reply.exc THEN [req EXCEPT !.status = 500, !.raw_error = TRUE, !.calls = bot_reply.val.calls]
                 ELSE IF ReplyEmpty(bot_reply.val.reply) THEN [req EXCEPT !.status = 200, !.note = TRUE, !.calls = bot_reply.val.calls]
                 ELSE [req EXCEPT !.status = 200, !.reply = bot_reply.val.reply, !.calls = bot_reply.val.calls]

\* scheduler.add_job(id='daily_message', replace_existing=True)
add_job(sched, id) == IF \E i \in 1..Len(sched) : sched[i] = id THEN sched ELSE Append(sched, id)

ServerFrame == <<proc, env, io_faults, GROUPS_FILE, upserted, clock, hpc, hst, jobs, tpc, tst, ticks, health, built>>

\* server.py lines 239-266: every call builds a new BackgroundScheduler, adds the
\* job to it and starts it; the jobs of all started schedulers are active
init_scheduler(active) == active \o add_job(<<>>, "daily_message")

\* server.py lines 273-294
ServerMain ==
    /\ srv_sched = <<>>
    /\ srv_sched' = init_scheduler(srv_sched)
    /\ UNCHANGED srv
    /\ UNCHANGED ServerFrame

T_blank == <<" "," ">>
T_padded == <<" ","s","m","o","o","t","h"," ">>

ServerMessages == {T_hi, T_name, T_news, T_newsonly, T_handle, T_blank, T_padded, <<>>}

PostMessage(has_field, message, r) ==
    /\ srv_sched # <<>>
    /\ srv' = server_handle_message(has_field, message, env.OPENROUTER_API_KEY, r)
    /\ UNCHANGED srv_sched
    /\ UNCHANGED ServerFrame

\* api.py lines 148-180: the quote of the day, or one of four stored quotes
\* (random.choice) when ZenQuotes fails or answers with an empty list
QuoteResponses == {"error", "empty", "quote"}

fallback_quotes == <<"Eleanor Roosevelt", "Winston Churchill", "Theodore Roosevelt", "Steve Jobs">>

get_motivational_quote(resp, pick) ==
    IF resp = "quote"
    THEN [title |-> "Quote of the Day", items |-> <<"zenquotes">>, body |-> ""]
    ELSE [title |-> "", items |-> <<>>, body |-> fallback_quotes[pick]]

\* api.py lines 113-146: the trending coins; "malformed" is an item that is no
\* object or whose symbol is null, caught by the except of line 144
CoinResponses == {"error", "empty", "coins", "malformed"}

MARKETS_MOVING == "Crypto News: Markets are moving!"
UNABLE_TO_FETCH == "Crypto News: Unable to fetch latest headlines."

get_crypto_news(resp) ==
    CASE resp = "coins" -> [title |-> "Trending Cryptocurrencies Today:", items |-> <<[n |-> 1, name |-> "Bitcoin", symbol |-> "BTC", rank |-> 1]>>, body |-> ""]
      [] resp = "empty" -> [title |-> "", items |-> <<>>, body |-> MARKETS_MOVING]
      [] OTHER -> [title |-> "", items |-> <<>>, body |-> UNABLE_TO_FETCH]

\* server.py lines 81-110
generate_daily_message(q, pick, c) ==
    LET quote == get_motivational_quote(q, pick)
        crypto_news == get_crypto_news(c)
    IN  Ok([date |-> 0, sections |-> <<quote, crypto_news>>])

\* server.py lines 191-207: GET /daily
get_daily_message(q, pick, c) ==
    LET daily_msg == generate_daily_message(q, pick, c)
        req == [NoRequest EXCEPT !.op = "daily", !.builds = 1]
    IN  IF daily_msg.exc THEN [req EXCEPT !.status = 500, !.raw_error = TRUE]
        ELSE [req EXCEPT !.status = 200, !.reply = NewsReplyOf(daily_msg.val)]

GetDaily(q, pick, c) ==
    /\ srv_sched # <<>>
    /\ srv' = get_daily_message(q, pick, c)
    /\ UNCHANGED srv_sched
    /\ UNCHANGED ServerFrame

\* main.py lines 327-340 applied again to the running application
Reschedule ==
    /\ proc = "running"
    /\ Len(jobs) < MaxRegistrations
    /\ jobs' = setup_daily_news(jobs)
    /\ UNCHANGED <<proc, env, io_faults, GROUPS_FILE, upserted, clock, hpc, hst, tpc, tst, ticks, srv_sched, srv, health, built>>

\* server.py lines 239-266 applied again in the running process
ServerReschedule ==
    /\ srv_sched # <<>>
    /\ Len(srv_sched) < MaxRegistrations
    /\ srv_sched' = init_scheduler(srv_sched)
    /\ UNCHANGED srv
    /\ UNCHANGED ServerFrame

\* lines 165-191 applied to one set of answers of the three sources
Assemble(r1, r2, r3) ==
    /\ built' = [done |-> TRUE, sources |-> <<r1, r2, r3>>, result |-> format_news_message(clock, r1, r2, r3)]
    /\ UNCHANGED <<proc, env, io_faults, GROUPS_FILE, upserted, clock, hpc, hst, jobs, tpc, tst, ticks, srv_sched, srv, health>>

(***************************************************************************)
(* Specifications.                                                         *)
(***************************************************************************)
Entry(chat_id, title, added_at) == [key |-> py_str(chat_id), title |-> title, added_at |-> added_at]

\* groups.json survives restarts: absent on a first run, or left by an earlier run
InitialFiles == {NoFile, [exists |-> TRUE, valid |-> TRUE, entries |-> <<Entry(-20, "beta", 0), Entry(-1, "alpha", 0)>>]}

\* a first run: groups.json is absent, holds {} or is a zero-byte file
EmptyStores == {NoFile, [exists |-> TRUE, valid |-> TRUE, entries |-> <<>>], [exists |-> TRUE, valid |-> FALSE, entries |-> <<>>]}

InitFrom(files, faults) ==
    /\ proc = "init"
    /\ env \in [TELEGRAM_TOKEN : BOOLEAN, OPENROUTER_API_KEY : BOOLEAN]
    /\ io_faults = faults
    /\ GROUPS_FILE \in files
    /\ upserted = {}
    /\ clock = 0
    /\ hpc = [h \in Handlers |-> "idle"]
    /\ hst = [h \in Handlers |-> IdleH]
    /\ jobs = <<>>
    /\ tpc = "idle"
    /\ tst = NoTick
    /\ ticks = 0
    /\ srv_sched = <<>>
    /\ srv = NoRequest
    /\ health = NoHealth
    /\ built = NoBuilt

Init == InitFrom(InitialFiles, FALSE)

\* main.py: the inbound-message handlers
Next ==
    \/ Main
    \/ \E h \in Handlers, u \in Updates : Receive(h, u)
    \/ \E h \in Handlers, ok \in BOOLEAN : AckDone(h, ok)
    \/ \E h \in Handlers, ok \in BOOLEAN : NewsSendDone(h, ok)
    \/ \E h \in Handlers, ok \in BOOLEAN : NewsErrorDone(h, ok)
    \/ \E h \in Handlers, ok \in BOOLEAN : GetFileDone(h, ok)
    \/ \E h \in Handlers, ok \in BOOLEAN : TypingDone(h, ok)
    \/ \E h \in Handlers, ok \in BOOLEAN : ReplyDone(h, ok)
    \/ \E h \in Handlers : Return(h)

Spec == Init /\ [][Next]_vars

\* main.py: the daily job, with one handler registering chats beside it
NextTick ==
    \/ Main
    \/ TickStart
    \/ \E ok \in BOOLEAN : SendDone(ok)
    \/ \E ok \in BOOLEAN : PinDone(ok)
    \/ \E u \in SilentGroupUpdates : Receive(1, u)
    \/ Return(1)

SpecTick == Init /\ [][NextTick]_vars

\* main.py: one handler, with a store whose reads and writes may fail
NextIO ==
    \/ Main
    \/ \E u \in Updates : Receive(1, u)
    \/ \E ok \in BOOLEAN : AckDone(1, ok)
    \/ \E ok \in BOOLEAN : NewsSendDone(1, ok)
    \/ \E ok \in BOOLEAN : NewsErrorDone(1, ok)
    \/ \E ok \in BOOLEAN : GetFileDone(1, ok)
    \/ \E ok \in BOOLEAN : TypingDone(1, ok)
    \/ \E ok \in BOOLEAN : ReplyDone(1, ok)
    \/ Return(1)

SpecIO == InitFrom(InitialFiles, TRUE) /\ [][NextIO]_vars

\* main.py: the upserts of one handler beside the Flask thread and a process stop
NextStore ==
    \/ Main
    \/ \E u \in SilentGroupUpdates : ReceiveOpen(u)
    \/ DumpDone
    \/ Return(1)
    \/ Health
    \/ Stop

SpecStore == Init /\ [][NextStore]_vars

\* the same on a first run, the store empty or absent
SpecFresh == InitFrom(EmptyStores, FALSE) /\ [][NextTick]_vars

\* server.py and api.py
NextServer ==
    \/ ServerMain
    \/ \E has_field \in BOOLEAN, message \in ServerMessages, r \in ApiResponses : PostMessage(has_field, message, r)
    \/ \E q \in QuoteResponses, pick \in 1..Len(fallback_quotes), c \in CoinResponses : GetDaily(q, pick, c)

SpecServer == Init /\ [][NextServer]_vars

\* the registration of the daily job, applied once by main and then again
NextJobs ==
    \/ Main
    \/ Reschedule
    \/ ServerMain
    \/ ServerReschedule
    \/ \E q \in QuoteResponses, pick \in 1..Len(fallback_quotes), c \in CoinResponses : GetDaily(q, pick, c)

SpecJobs == Init /\ [][NextJobs]_vars

\* the assembly of the broadcast document, applied to every answer of its sources
NextAssembly ==
    \/ \E r1 \in NewsResponses, r2 \in NewsResponses, r3 \in NewsResponses : Assemble(r1, r2, r3)
    \/ ServerMain
    \/ \E q \in QuoteResponses, pick \in 1..Len(fallback_quotes), c \in CoinResponses : GetDaily(q, pick, c)

SpecAssembly == Init /\ [][NextAssembly]_vars

(***************************************************************************)
(* Properties.                                                             *)
(***************************************************************************)
Busy(h) == hpc[h] # "idle" /\ hst[h].update.has_message

TextOf(u) == py_or(u.text, py_or(u.caption, <<>>))

\* the text holds neither the bot name nor its @handle, whatever the case, and
\* the message is no reply to a message of the bot
NotAddressed(u) ==
    /\ \A i \in 0..(Len(TextOf(u)) - Len(BOT_NAME)) : lower(SubSeq(TextOf(u), i + 1, i + Len(BOT_NAME))) # BOT_NAME
    /\ \A i \in 0..(Len(TextOf(u)) - Len(bot_username) - 1) : lower(SubSeq(TextOf(u), i + 1, i + Len(bot_username) + 1)) # <<"@">> \o bot_username
    /\ u.reply_to_from # bot_id

\* C1: a message that holds neither the bot name nor its handle and is no reply
\* to the bot is met with silence: the handler ends without sending a reply,
\* without calling the language-model endpoint and without calling a content source.
C1_SilenceNoCalls ==
    \A h \in Handlers :
        (Busy(h) /\ NotAddressed(hst[h].update)) =>
            /\ hpc[h] = "done"
            /\ hst[h].decision = "Silence"
            /\ hst[h].replies = <<>>
            /\ hst[h].pending = NoReply
            /\ Count(hst[h].log, "call_openrouter") = 0
            /\ Count(hst[h].log, "fetch") = 0
            /\ Count(hst[h].log, "reply") = 0

\* C1 witness: an unaddressed message that carries a news keyword has been handled
C1_Witness ==
    \E h \in Handlers :
        /\ hpc[h] = "done"
        /\ Busy(h)
        /\ NotAddressed(hst[h].update)
        /\ TextOf(hst[h].update) = T_newsonly

\* C1 on server.py: a message without the bot name gets the empty reply and no call
C1_ServerSilence ==
    (srv.op = "message" /\ srv.status = 200 /\ ~contains(lower(server_BOT_NAME), lower(srv.message))) =>
        (srv.reply = NoReply /\ srv.calls = 0 /\ srv.note)

NoDuplicateKeys(d) == \A i, j \in 1..Len(d) : d[i].key = d[j].key => i = j

\* C2: upserts keep one entry per chat identifier, and an upsert of a registered
\* identifier leaves its registered-at timestamp as the first upsert wrote it.
C2_RegisteredAtKept ==
    [][/\ NoDuplicateKeys(GROUPS_FILE'.entries)
       /\ \A i \in 1..Len(GROUPS_FILE.entries) :
            dict_has(GROUPS_FILE'.entries, GROUPS_FILE.entries[i].key) =>
                dict_get(GROUPS_FILE'.entries, GROUPS_FILE.entries[i].key).added_at = GROUPS_FILE.entries[i].added_at]_vars

TickEnded == tpc = "armed" /\ tst.outcome # "none"

Attempted(chat_id) == \E j \in 1..Len(tst.sends) : tst.sends[j].chat_id = chat_id

\* C3: in a tick, a delivery is attempted for every chat of the registry, whatever
\* sends failed before it, and every chat whose send succeeded got the document.
C3_FanOutIsolation ==
    TickEnded =>
        /\ \A i \in 1..Len(tst.groups) : Attempted(py_int(tst.groups[i].key))
        /\ \A j \in 1..Len(tst.sends) : tst.sends[j].ok => tst.sends[j].text = tst.news_message

\* C3, the loop alone: once the document is assembled, the tick attempts the chats
\* of its snapshot in order, one send each, whatever the sends and pins returned.
C3_LoopIsolation ==
    tst.outcome \in {"running", "finished"} =>
        /\ Len(tst.sends) = (IF tpc = "sending" THEN tst.idx - 1 ELSE tst.idx)
        /\ \A j \in 1..Len(tst.sends) : tst.sends[j].chat_id = py_int(tst.groups[j].key) /\ tst.sends[j].text = tst.news_message
        /\ (tst.outcome = "finished" => Len(tst.sends) = Len(tst.groups))

\* C4: no exception escapes a tick: every tick that starts ends as a completed
\* tick, whatever the assembly of the document, the sends and the pins did.
C4_TickNeverRaises == tst.outcome # "raised"

\* C5: with a healthy store, every chat identifier upserted so far, by handlers
\* running one after the other or suspended beside each other, is in the registry
\* exactly once, and the store is a readable registry.
C5_NoLostUpserts ==
    ~io_faults =>
        /\ GROUPS_FILE.valid
        /\ NoDuplicateKeys(GROUPS_FILE.entries)
        /\ \A id \in upserted : dict_has(GROUPS_FILE.entries, py_str(id))

\* C5 witness: two handlers in flight at once have upserted two different chats,
\* the second while the first was suspended at an await
C5_Witness ==
    \E h1, h2 \in Handlers :
        /\ Busy(h1) /\ Busy(h2)
        /\ hpc[h1] \in {"typing", "get_file", "ack", "reply"}
        /\ hst[h1].update.chat_id # hst[h2].update.chat_id
        /\ {hst[h1].update.chat_id, hst[h2].update.chat_id} \subseteq upserted
        /\ dict_has(GROUPS_FILE.entries, py_str(hst[h1].update.chat_id))
        /\ dict_has(GROUPS_FILE.entries, py_str(hst[h2].update.chat_id))
        /\ dict_get(GROUPS_FILE.entries, py_str(hst[h1].update.chat_id)).added_at
             < dict_get(GROUPS_FILE.entries, py_str(hst[h2].update.chat_id)).added_at

\* C6: with a healthy store, a message from a group or supergroup has its chat in
\* the registry from the moment the handler evaluates the mention, whatever the
\* decision: add_group is the first step of the handler and the mention check the next.
C6_RegisteredBeforeDecision ==
    ~io_faults =>
        \A h \in Handlers :
            (Busy(h) /\ hst[h].update.chat_type \in {"group", "supergroup"}) =>
                /\ dict_has(GROUPS_FILE.entries, py_str(hst[h].update.chat_id))
                /\ Len(hst[h].log) >= 2
                /\ hst[h].log[1] = "add_group"
                /\ hst[h].log[2] = "is_mentioned"
                /\ hst[h].decision \in {"Silence", "NewsReply", "ModelReply"}

\* C6 witness: a silent message from a group has been handled while the handler
\* of a news request from a supergroup is suspended, and both chats are registered
C6_Witness ==
    \E h1, h2 \in Handlers :
        /\ hpc[h1] = "done" /\ hpc[h2] = "news_send"
        /\ Busy(h1) /\ Busy(h2)
        /\ hst[h1].decision = "Silence" /\ hst[h1].update.chat_type = "group"
        /\ hst[h2].decision = "NewsReply" /\ hst[h2].update.chat_type = "supergroup"
        /\ dict_has(GROUPS_FILE.entries, py_str(hst[h1].update.chat_id))
        /\ dict_has(GROUPS_FILE.entries, py_str(hst[h2].update.chat_id))

FailureKind(r) ==
    CASE UpstreamRateLimited(r) -> "RateLimited"
      [] UpstreamTimeout(r) -> "Timeout"
      [] UpstreamSuccess(r) -> "Success"
      [] UpstreamEmpty(r) -> "EmptyResponse"
      [] OTHER -> "TransportError"

Called(h) == hst[h].exchange # NoExchange

\* the reply the handler has chosen, being sent or delivered
ChosenReply(h) == IF hpc[h] = "reply" THEN hst[h].pending ELSE hst[h].replies[Len(hst[h].replies)]

HasChosen(h) == hpc[h] = "reply" \/ (hpc[h] = "done" /\ hst[h].replies # <<>>)

\* C7: when the endpoint answers 429 or 402, or the transport error carries a
\* quota phrase, the reply is the fixed rate-limit text and the call is made once.
C7_RateLimitReply ==
    \A h \in Handlers :
        (Busy(h) /\ Called(h) /\ UpstreamRateLimited(hst[h].exchange)) =>
            /\ Count(hst[h].log, "call_openrouter") = 1
            /\ hpc[h] \in {"reply", "done", "raised"}
            /\ HasChosen(h) => ChosenReply(h) = FixedReply(RATE_LIMIT_REPLY)

\* C8: each failure kind has its own fixed fallback text: two calls that fail
\* with different kinds are never answered with the same text.
C8_FallbackPerKind ==
    \A h1, h2 \in Handlers :
        (/\ Busy(h1) /\ Busy(h2) /\ Called(h1) /\ Called(h2)
         /\ HasChosen(h1) /\ HasChosen(h2)
         /\ FailureKind(hst[h1].exchange) # "Success"
         /\ FailureKind(hst[h2].exchange) # "Success"
         /\ FailureKind(hst[h1].exchange) # FailureKind(hst[h2].exchange)) =>
            /\ ChosenReply(h1).kind = "fixed"
            /\ ChosenReply(h2).kind = "fixed"
            /\ ChosenReply(h1) # ChosenReply(h2)

\* C9: a ModelReply message whose call was made, and whose sends to the chat
\* platform did not fail, ends with one call and exactly one reply delivered: the
\* generated text or a fixed fallback text.
C9_ExactlyOneReply ==
    \A h \in Handlers :
        (/\ Busy(h) /\ hst[h].decision = "ModelReply" /\ Called(h)
         /\ hpc[h] \in {"done", "raised"} /\ hst[h].error # "delivery") =>
            /\ hpc[h] = "done"
            /\ Count(hst[h].log, "call_openrouter") = 1
            /\ Len(hst[h].replies) = 1
            /\ hst[h].replies[1].kind \in {"generated", "fixed"}

IsNewsDocument(reply) ==
    /\ reply.kind = "news"
    /\ \A title \in {CRYPTO_TITLE, INDIA_TITLE, WORLD_TITLE} : HasSection(reply.doc, title)
    /\ \A i \in 1..Len(reply.doc.sections) : SectionFilled(reply.doc.sections[i])

\* C10: a mentioned message with a news keyword, once handled with no send to the
\* chat platform failing, made no call to the endpoint and was answered with a news
\* text that has the three section headers, each populated or with its placeholder.
C10_NewsReply ==
    \A h \in Handlers :
        (/\ Busy(h) /\ hpc[h] = "done" /\ hst[h].error # "delivery"
         /\ is_mentioned(TextOf(hst[h].update), hst[h].update.reply_to_from)
         /\ \E keyword \in news_keywords : contains(keyword, lower(TextOf(hst[h].update)))) =>
            /\ hst[h].decision = "NewsReply"
            /\ Count(hst[h].log, "call_openrouter") = 0
            /\ \E i \in 1..Len(hst[h].replies) : IsNewsDocument(hst[h].replies[i])

\* C10 on server.py: a message with the bot name and a news keyword makes no call
C10_ServerNoCall ==
    (/\ srv.op = "message" /\ srv.status = 200
     /\ should_respond(strip(srv.message))
     /\ \E keyword \in news_keywords : contains(keyword, lower(srv.message))) =>
        srv.calls = 0

\* C11: in a tick, every pin follows a successful send to the same chat and
\* carries the identifier of that message; a chat is pinned at most once and sent
\* to at most once; a failed pin leaves the send recorded as a success, and the
\* tick still goes on to the remaining chats.
C11_PinAfterSend ==
    /\ \A j \in 1..Len(tst.pins) :
          \E k \in 1..Len(tst.sends) :
              /\ tst.sends[k].ok
              /\ tst.sends[k].chat_id = tst.pins[j].chat_id
              /\ tst.sends[k].message_id = tst.pins[j].message_id
    /\ \A i, j \in 1..Len(tst.pins) : tst.pins[i].chat_id = tst.pins[j].chat_id => i = j
    /\ \A i, j \in 1..Len(tst.sends) : tst.sends[i].chat_id = tst.sends[j].chat_id => i = j
    /\ Len(tst.pins) = Cardinality({k \in 1..Len(tst.sends) : tst.sends[k].ok}) - (IF tpc = "pinning" THEN 1 ELSE 0)
    /\ (tpc = "sending" => \A j \in 1..Len(tst.pins) : tst.pins[j].chat_id # py_int(tst.groups[tst.idx].key))
    /\ (tst.outcome = "finished" => \A i \in 1..Len(tst.groups) : Attempted(py_int(tst.groups[i].key)))

\* C11 witness: a tick has ended in which the pin in the first chat failed and the
\* second chat was sent to and pinned all the same
C11_Witness ==
    /\ tst.outcome = "finished"
    /\ Len(tst.groups) = 2 /\ Len(tst.sends) = 2 /\ Len(tst.pins) = 2
    /\ tst.sends[1].ok /\ ~tst.pins[1].ok
    /\ tst.sends[2].ok /\ tst.pins[2].ok
    /\ tst.pins[2].message_id = tst.sends[2].message_id
    /\ tst.pins[1].chat_id # tst.pins[2].chat_id

SectionOf(resp, s) ==
    CASE resp = "articles" -> s.items # <<>> /\ s.body = ""
      [] resp \in {"error", "empty"} -> s.items = <<>> /\ s.body = NO_NEWS
      [] OTHER -> SectionFilled(s)

\* C12: every assembly returns a document, whatever its sources answered (an
\* error, nothing, articles, a malformed article): the document has the three
\* sections in their fixed order, and each section is populated or holds its
\* placeholder according to the answer of its own source alone.
C12_AssemblyNeverFails ==
    /\ built.done =>
          /\ ~built.result.exc
          /\ Len(built.result.val.sections) = 3
          /\ built.result.val.sections[1].title = CRYPTO_TITLE
          /\ built.result.val.sections[2].title = INDIA_TITLE
          /\ built.result.val.sections[3].title = WORLD_TITLE
          /\ \A i \in 1..3 : SectionOf(built.sources[i], built.result.val.sections[i])
    /\ srv.op = "daily" => (srv.status = 200 /\ srv.reply.kind = "news" /\ Len(srv.reply.doc.sections) = 2)

\* C12 on server.py alone: GET /daily always answers with the two-section message
C12_ServerAssembly ==
    srv.op = "daily" =>
        /\ srv.status = 200 /\ srv.reply.kind = "news" /\ Len(srv.reply.doc.sections) = 2
        /\ \A i \in 1..2 : srv.reply.doc.sections[i].items # <<>> \/ srv.reply.doc.sections[i].body # ""

\* the identifiers enumerated from the registry: the keys of load_groups(), read
\* back as integers (line 206)
registry_ids(file) == {py_int(k) : k \in dict_keys(load_groups(file, "ok"))}

\* C13: starting from an empty or absent store, the identifiers enumerated from
\* the registry are exactly the distinct identifiers upserted so far, each once,
\* and a tick enumerates no identifier that was not upserted.
C13_RoundTrip ==
    /\ registry_ids(GROUPS_FILE) = upserted
    /\ NoDuplicateKeys(load_groups(GROUPS_FILE, "ok"))
    /\ Len(load_groups(GROUPS_FILE, "ok")) = Cardinality(upserted)
    /\ \A i \in 1..Len(tst.groups) : py_int(tst.groups[i].key) \in upserted
    /\ \A j \in 1..Len(tst.sends) : tst.sends[j].chat_id \in upserted

\* C13 witness: two distinct chats were upserted into a store that started empty,
\* and a tick has enumerated and attempted exactly those two
C13_Witness ==
    /\ Cardinality(upserted) = 2
    /\ registry_ids(GROUPS_FILE) = upserted
    /\ tst.outcome = "finished"
    /\ {tst.sends[j].chat_id : j \in 1..Len(tst.sends)} = upserted

\* the handler that took a step
Stepped(h) == hpc'[h] # hpc[h] \/ hst'[h] # hst[h]

\* C14: no step of a handler whose message comes from a chat that is neither a
\* group nor a supergroup changes the registry: not the step that receives the
\* message, whatever the decision, and not the steps after the model call,
\* whatever its outcome.
C14_NonGroupKeepsRegistry ==
    [][\A h \in Handlers :
          (/\ Stepped(h)
           /\ hst'[h].update.chat_type \notin {"group", "supergroup"}
           /\ hst[h].update.chat_type \notin {"group", "supergroup"}) =>
              (GROUPS_FILE' = GROUPS_FILE /\ upserted' = upserted)]_vars

\* C14 witness: a message from a private chat was answered after a model call
\* that was rate limited, and the store is still absent
C14_Witness ==
    \E h \in Handlers :
        /\ hpc[h] = "done" /\ Busy(h)
        /\ hst[h].update.chat_type = "private"
        /\ hst[h].decision = "ModelReply"
        /\ Called(h) /\ hst[h].exchange.status = 429
        /\ Len(hst[h].replies) = 1
        /\ GROUPS_FILE = NoFile

\* C15: when a required credential is missing, the process handles no inbound
\* message and arms no broadcast job: main.py does not run, and server.py neither
\* starts its scheduler nor answers a message.
C15_ConfigFatal ==
    /\ (~env.TELEGRAM_TOKEN \/ ~env.OPENROUTER_API_KEY) =>
          /\ proc # "running"
          /\ jobs = <<>>
          /\ tpc = "idle"
          /\ \A h \in Handlers : hpc[h] = "idle"
    /\ ~env.OPENROUTER_API_KEY =>
          /\ srv_sched = <<>>
          /\ srv.op # "message"

\* C15 on main.py alone: without both credentials main() returns before it
\* registers a handler or the daily job
C15_MainRefuses ==
    (~env.TELEGRAM_TOKEN \/ ~env.OPENROUTER_API_KEY) =>
        /\ proc # "running"
        /\ jobs = <<>>
        /\ tpc = "idle"
        /\ \A h \in Handlers : hpc[h] = "idle"

\* the state of the scheduler: no job yet, waiting for the scheduled time, or in a tick
Phase == CASE tpc = "idle" -> "Idle" [] tpc = "armed" -> "Armed" [] OTHER -> "Firing"

\* C16: the scheduler moves only Idle -> Armed -> Firing -> Armed, and a tick
\* starts only when no tick is in its fan-out loop: a scheduled time that comes
\* while a tick is suspended at a send or a pin starts no second tick.
C16_SingleFiring ==
    [][/\ Phase' # Phase => <<Phase, Phase'>> \in {<<"Idle", "Armed">>, <<"Armed", "Firing">>, <<"Firing", "Armed">>}
       /\ tst'.tick # tst.tick => (Phase = "Armed" /\ tst'.tick = ticks')
       /\ Phase = "Firing" /\ Phase' = "Firing" => (tst'.tick = tst.tick /\ tst'.groups = tst.groups)]_vars

\* C16 witness: the scheduled time came again while the tick was suspended at a
\* pin, and the tick that runs is still the earlier one
C16_Witness ==
    /\ tpc = "pinning"
    /\ tst.tick = 1
    /\ ticks = 2
    /\ Len(tst.sends) = 1

\* C17: however often the daily job is registered, one broadcast job is active:
\* a registration under the name or id of an existing job replaces it.
C17_OneBroadcastJob ==
    /\ Len(jobs) <= 1
    /\ Len(srv_sched) <= 1

\* C17 for the program as it is started: main() and __main__ register the job once
C17_OneJobAsStarted ==
    /\ Len(jobs) <= 1
    /\ Len(srv_sched) <= 1
    /\ proc = "running" => jobs = <<"daily_news">>

\* C18: when the read or the write of the store fails while a message is handled,
\* no exception of the store ends the handler, a failed read is taken as an empty
\* registry, and the mention check, the decision and the reply are the ones a
\* healthy store gives for the same message and the same answer of the endpoint.
C18_StoreFaultsDoNotBlock ==
    \A h \in Handlers :
        Busy(h) =>
            /\ hst[h].error \in {"", "delivery", "KeyError", "IndexError", "ValueError"}
            /\ Count(hst[h].log, "is_mentioned") = 1
            /\ hst[h].decision = Decision(TextOf(hst[h].update), hst[h].update.reply_to_from)
            /\ hst[h].decision = "Silence" => (hpc[h] = "done" /\ hst[h].replies = <<>>)
            /\ hst[h].decision # "Silence" => (hpc[h] = "done" => hst[h].replies # <<>>)
            /\ (hst[h].decision = "ModelReply" /\ HasChosen(h)) =>
                   ChosenReply(h) = ReplyFor(call_openrouter(hst[h].message_text, hst[h].image_url, hst[h].exchange).val)
            /\ (hst[h].io.rd = "error" /\ hst[h].io.wr = "ok") =>
                   GROUPS_FILE.entries = <<Entry(hst[h].update.chat_id, hst[h].update.chat_title, clock)>>

\* C18 witness: a message from a registered group was answered with the generated
\* text although the store could be neither read nor opened for writing
C18_Witness ==
    \E h \in Handlers :
        /\ hpc[h] = "done" /\ Busy(h)
        /\ hst[h].update.chat_type = "group"
        /\ hst[h].io.rd = "error" /\ hst[h].io.wr = "open_error"
        /\ hst[h].decision = "ModelReply"
        /\ hst[h].replies = <<GeneratedReply(GEN_TEXT)>>

\* C19: the store on disk is at every moment a whole registry, the one before
\* the upsert or the one after it: a stop of the process leaves no truncated or
\* half written file, and /health never reads one.
C19_AtomicWrite ==
    /\ GROUPS_FILE.exists => GROUPS_FILE.valid
    /\ ~health.torn

\* C19, the two observers apart: the file a stopped process leaves behind, and
\* the file /health reads
C19_StopLeavesRegistry == proc = "stopped" => (GROUPS_FILE.exists => GROUPS_FILE.valid)

C19_HealthSeesRegistry == ~health.torn

\* a step of the on-demand news branch of handler h (lines 260-274)
OnDemandStep(h) == hpc[h] \in {"ack", "news_send", "news_error"} /\ Stepped(h)

\* C20: the on-demand trigger sends nothing and pins nothing to the registered
\* chats and leaves the registry and the scheduled job as they are, and once it has
\* ended with its replies delivered it has run one assembly and handed the
\* assembled text to the requester.
C20_OnDemandTrigger ==
    [][\A h \in Handlers :
          OnDemandStep(h) =>
              /\ GROUPS_FILE' = GROUPS_FILE
              /\ jobs' = jobs
              /\ tst' = tst
              /\ (hpc'[h] = "done" /\ hst'[h].error # "delivery") =>
                     /\ Count(hst'[h].log, "fetch") = 3
                     /\ Count(hst'[h].log, "call_openrouter") = 0
                     /\ hst'[h].replies[Len(hst'[h].replies)].kind = "news"]_vars

\* C20, the frame alone: no step of the on-demand branch touches the registry,
\* the job or the sends and pins of a tick, and it assembles at most once
C20_NoFanOut ==
    [][\A h \in Handlers :
          OnDemandStep(h) =>
              /\ GROUPS_FILE' = GROUPS_FILE
              /\ jobs' = jobs
              /\ tst' = tst
              /\ Count(hst'[h].log, "fetch") \in {0, 3}]_vars

\* C20 on server.py: GET /daily runs one assembly, answers 200 with the text and
\* leaves the scheduler as it is
C20_ServerDaily ==
    [][(srv'.op = "daily" /\ srv' # srv) =>
          /\ srv'.builds = 1
          /\ srv'.status = 200
          /\ srv'.reply.kind = "news"
          /\ srv_sched' = srv_sched]_vars

\* the text holds neither the bot name nor its @handle, whatever the case
NotNamed(u) ==
    /\ \A i \in 0..(Len(TextOf(u)) - Len(BOT_NAME)) : lower(SubSeq(TextOf(u), i + 1, i + Len(BOT_NAME))) # BOT_NAME
    /\ \A i \in 0..(Len(TextOf(u)) - Len(bot_username) - 1) : lower(SubSeq(TextOf(u), i + 1, i + Len(bot_username) + 1)) # <<"@">> \o bot_username

\* C21: a message that replies to a message of the bot is a mention, also when
\* its text is empty or holds neither the name nor the handle: its decision is
\* never Silence, and a handler that ended normally has replied.
C21_ReplyToBotIsMention ==
    \A h \in Handlers :
        (Busy(h) /\ hst[h].update.reply_to_from = bot_id) =>
            /\ hst[h].decision \in {"ModelReply", "NewsReply"}
            /\ hpc[h] = "done" => hst[h].replies # <<>>

\* C21 witness: a photo without caption sent in reply to the bot was answered
C21_Witness ==
    \E h \in Handlers :
        /\ hpc[h] = "done" /\ Busy(h)
        /\ hst[h].update.reply_to_from = bot_id
        /\ TextOf(hst[h].update) = <<>>
        /\ NotNamed(hst[h].update)
        /\ hst[h].decision = "ModelReply"
        /\ Len(hst[h].replies) = 1

\* C21 witness for a text: a reply to the bot that names nobody is being answered
C21_TextReplyAnswered ==
    \E h \in Handlers :
        /\ Busy(h) /\ hst[h].update.reply_to_from = bot_id
        /\ TextOf(hst[h].update) = T_hi /\ NotNamed(hst[h].update)
        /\ hpc[h] = "reply"

SentTo == {tst.sends[j].chat_id : j \in 1..Len(tst.sends)}

\* C22: a tick attempts delivery to exactly the chats that were in the registry
\* when it began: never to a chat that a handler registered while the tick was
\* in its loop, and, once it has ended, to every chat registered before it began,
\* so a chat registered during one tick is attempted in the next.
C22_SnapshotFanOut ==
    /\ SentTo \subseteq tst.registered
    /\ (TickEnded /\ tst.tick > 0) => SentTo = tst.registered

\* C22 for the ticks whose document was assembled: the chats attempted are the
\* snapshot of the tick's begin
C22_SnapshotWhenAssembled ==
    /\ SentTo \subseteq tst.registered
    /\ (TickEnded /\ tst.outcome \in {"finished", "no_groups"}) => SentTo = tst.registered

\* a handler has registered a chat while the tick was suspended at a pin, and the
\* tick ended without an attempt for it
C22_RegisteredMidLoop ==
    /\ tst.outcome = "finished" /\ tst.tick = 1 /\ ticks = 1
    /\ \E id \in upserted : id \in registry_ids(GROUPS_FILE) /\ id \notin tst.registered /\ id \notin SentTo

\* the next tick attempts a chat that was upserted after the first tick began
C22_NextTickDelivers ==
    /\ tst.outcome = "finished" /\ tst.tick = 2
    /\ \E id \in upserted : id \in SentTo /\ Len(tst.groups) = 3

\* C23: no step removes a chat from the registry: whatever message, upsert, tick,
\* failed read or failed write comes next, every chat that the store held before
\* the step is still in the store after it.
C23_RegistryNeverShrinks ==
    [][registry_ids(GROUPS_FILE) \subseteq registry_ids(GROUPS_FILE')]_vars

\* C23 while groups.json stays a complete, well-formed file: a chat once upserted
\* is in the registry in every later state
C23_UpsertedStays == upserted \subseteq registry_ids(GROUPS_FILE)

\* C24: every message to POST /message in which the bot's name is detected is
\* answered with a non-empty reply text, and is never answered with the empty
\* reply and the note that the bot only responds when it is mentioned.
C24_MentionYieldsReply ==
    (srv.op = "message" /\ srv.status # 400 /\ should_respond(strip(srv.message))) =>
        /\ ~ReplyEmpty(srv.reply)
        /\ ~srv.note

\* C24 for the requests answered 200: a detected mention is not reported as
\* unmentioned (refuted by a model text of blanks, which strip() empties)
C24_NoSilentSuccess ==
    (srv.op = "message" /\ srv.status = 200 /\ should_respond(strip(srv.message))) => ~srv.note

\* C24, the converse direction: a message without the name gets the empty reply and no call
C24_SilenceIsEmpty ==
    (srv.op = "message" /\ srv.status = 200 /\ ~should_respond(strip(srv.message))) =>
        (ReplyEmpty(srv.reply) /\ srv.note /\ srv.calls = 0)

\* C25: within one tick the news is assembled at most once, no chat gets a
\* second send attempt, and every send carries the text assembled at the tick's
\* begin; a tick that began with an empty registry assembles nothing, sends
\* nothing and pins nothing.
C25_OneDocumentPerTick ==
    /\ tst.builds <= 1
    /\ \A i, j \in 1..Len(tst.sends) : i # j => tst.sends[i].chat_id # tst.sends[j].chat_id
    /\ \A j \in 1..Len(tst.sends) : tst.builds = 1 /\ tst.sends[j].text = tst.news_message /\ tst.news_message.kind # "none"
    /\ (tst.tick > 0 /\ tst.registered = {}) => (tst.builds = 0 /\ tst.sends = <<>> /\ tst.pins = <<>> /\ tst.outcome = "no_groups")

\* C25 witness: a tick over two registered chats has ended with an attempt for
\* each, both carrying the one text assembled
C25_Witness ==
    /\ tst.outcome = "finished" /\ tst.builds = 1
    /\ Len(tst.sends) >= 2
    /\ tst.sends[1].text = tst.sends[2].text

\* a tick has begun with the registry empty and has ended
C25_EmptyTick == tst.tick > 0 /\ tst.registered = {} /\ tst.outcome = "no_groups"

====
